---- MODULE Spec2Model ----
(***************************************************************************)
(* Kube Nukem (xrstf/kubenukem, main.go): for every CRD name given on the  *)
(* command line, delete the CRD, strip the finalizers from the instances   *)
(* of its kind and wait for the CRD to disappear.                          *)
(*                                                                         *)
(* The tool is one sequential process; every action below is one blocking  *)
(* API call of it together with the local code that follows the call up to *)
(* the next call.  The cluster (the CRD object, the instances, the garbage *)
(* collector, other writers) changes between the calls.                    *)
(***************************************************************************)
EXTENDS Integers, Sequences, FiniteSets, TLC

\* ---------------------------------------------------------------- bounds
MaxTargets == 2      \* command line arguments
MaxInst == 2         \* instances of the CRD's kind in the cluster
MaxNs == 2           \* namespaces in the cluster
MaxPollFetches == 2  \* CRD fetches that fit into the poll timeout
MaxData == 1         \* writes of another writer to one instance
MaxVersions == 3     \* versions of a CRD (version resolution)

\* ------------------------------------------------------------ vocabulary
NoErr == "nil"
ErrRetrieve == "failed to retrieve CRD"
ErrDelete == "failed to delete CRD resource"
ErrListNs == "failed to list namespaces"
ErrListObjects == "failed to list objects"
ErrPatch == "failed to delete object"
ErrNoServed == "CRD has no version marked as served"
ErrFinal == "failed to check final CRD existence"

NamespaceScoped == "Namespaced"
ClusterScoped == "Cluster"

\* The names a user may type, and the one CRD name the cluster may hold.
ArgNames == {"Foo", "bar"}
CRDName == "foo"
Groups == {"omnicorp.com", "example.org"}
VersionNames == {"v1alpha1", "v1beta1", "v1"}
Finalizer == "a.b/finalizer"

\* strings.ToLower on the names above.
ToLower(s) == IF s = "Foo" THEN "foo" ELSE s

\* The namespaces of the cluster, in the order a list returns them; 0 stands
\* for "no namespace" (a cluster-scoped object, an unfiltered list).
Namespaces == [n \in 1..MaxNs |-> n]
NoNamespace == 0

\* What an API call may fail with besides what the cluster's state decides.
\* "err" is an API or transport error, "ctxerr" an error that wraps the
\* context's (deadline exceeded, canceled).
Faults == {"err"}
ListFaults == {"err", "notfound"}
PollFaults == {"err", "ctxerr"}
NoFaults == {}

RECURSIVE SeqsUpTo(_, _)
SeqsUpTo(S, n) ==
    IF n = 0 THEN {<<>>}
    ELSE LET shorter == SeqsUpTo(S, n - 1)
         IN shorter \cup {Append(s, x) : s \in shorter, x \in S}

VersionRecs == [name : VersionNames, served : BOOLEAN]

VARIABLES
    args,        \* pflag.Args()
    i,           \* index of the target main's loop is at
    pc,          \* where the tool is
    success,     \* main's flag
    exitCode,    \* -1 while running
    result,      \* result[t]: what nukeCRD returned for target t ("" before)
    invoked,     \* the names nukeCRD was called with, in order
    warned,      \* warned[t]: the "CRD still exists" warning was logged
    crd,         \* nukeCRD's fetched CRD
    scopes,      \* removeResources: the list options still to sweep
    scIdx,       \* ... and the position in them
    apiVersion,  \* removeResourcesWithOpts: the resolved API version
    items,       \* objectList.Items
    idx,         \* position of the range loop in items
    ticks,       \* CRD fetches of the running poll
    calls,       \* the API calls of the running (or last) nukeCRD, in order
    lastPatch,   \* its last patch: the object as listed, and as patched
    listed,      \* the objects its list calls returned so far, in order
    cancel,      \* the interrupt signal: where the tool was when it came
    crdObj,      \* cluster: the CRD object
    objs         \* cluster: the instances, by name

vars == <<args, i, pc, success, exitCode, result, invoked, warned, crd, scopes,
          scIdx, apiVersion, items, idx, ticks, calls, lastPatch, listed,
          cancel, crdObj, objs>>

toolVars == <<args, i, pc, success, exitCode, result, invoked, warned, crd,
              scopes, scIdx, apiVersion, items, idx, ticks, calls, lastPatch,
              listed, cancel>>

Call(op, arg, res) == [t |-> i, op |-> op, arg |-> arg, res |-> res]

NoCRD == [exists |-> FALSE, deleting |-> FALSE, name |-> CRDName,
          scope |-> ClusterScoped, group |-> "omnicorp.com", versions |-> <<>>]

NoObj == [name |-> 0, ns |-> 0, fin |-> <<>>, data |-> 0, deleting |-> FALSE]

NoPatch == [t |-> 0, name |-> 0, old |-> NoObj, before |-> NoObj]

\* The context of signals.SetupSignalHandler, not cancelled.
NoCancel == [at |-> "", t |-> 0]

\* ------------------------------------------------------- pure functions

\* getAPIVersion: the range loop over crd.Spec.Versions, from position k.
RECURSIVE getAPIVersionFrom(_, _)
getAPIVersionFrom(c, k) ==
    IF k > Len(c.versions) THEN [v |-> "", err |-> ErrNoServed]
    ELSE IF c.versions[k].served
         THEN [v |-> c.group \o "/" \o c.versions[k].name, err |-> NoErr]
         ELSE getAPIVersionFrom(c, k + 1)

\* The scan run to its end: the last served version wins.
RECURSIVE getAPIVersionLastFrom(_, _)
getAPIVersionLastFrom(c, k) ==
    IF k < 1 THEN [v |-> "", err |-> ErrNoServed]
    ELSE IF c.versions[k].served
         THEN [v |-> c.group \o "/" \o c.versions[k].name, err |-> NoErr]
         ELSE getAPIVersionLastFrom(c, k - 1)

getAPIVersionLast(c) == getAPIVersionLastFrom(c, Len(c.versions))

getAPIVersion(c) == getAPIVersionFrom(c, 1)

\* obj.SetFinalizers(f) on a copy of the listed object.
SetFinalizers(obj, f) == [obj EXCEPT !.fin = f]

\* The whole object sent instead of its difference to oldObj.
MergeFromWhole(oldObj, obj) == obj

\* ctrlruntimeclient.MergeFrom(oldObj) applied to obj: the merge patch holds
\* the fields in which obj differs from oldObj, and nothing else.
MergeFrom(oldObj, obj) ==
    [f \in {g \in DOMAIN obj : oldObj[g] # obj[g]} |-> obj[f]]

\* The API server applying a merge patch to the object it stores.
ApplyPatch(cur, patch) ==
    [f \in DOMAIN cur |-> IF f \in DOMAIN patch THEN patch[f] ELSE cur[f]]

\* The skip test inverted: the items with finalizers are the ones skipped.
NeedsPatchInverted(obj) == Len(obj.fin) = 0

\* Every listed object patched, stuck or not.
NeedsPatchAlways(obj) == TRUE

\* len(obj.GetFinalizers()) == 0 { continue }
NeedsPatch(obj) == Len(obj.fin) # 0

\* The range loop over objectList.Items from position k: the position of the
\* next item that is patched, Len(its) + 1 when there is none.
RECURSIVE NextStuck(_, _)
NextStuck(its, k) ==
    IF k > Len(its) THEN k
    ELSE IF NeedsPatch(its[k]) THEN k ELSE NextStuck(its, k + 1)

\* removeResources: the list options removeResourcesWithOpts is called with,
\* given the items of the namespace list.
\* The namespaced branch falling through to the unfiltered call, as in the
\* first version of removeResources.
ScopesOfWithUnfiltered(c, nsItems) ==
    IF c.scope = NamespaceScoped THEN nsItems \o <<NoNamespace>>
    ELSE <<NoNamespace>>

ScopesOf(c, nsItems) ==
    IF c.scope = NamespaceScoped THEN nsItems ELSE <<NoNamespace>>

\* A fetch that treats not-found like every other error.
OnFetchStrict(out) == IF out = "ok" THEN "next" ELSE ErrRetrieve

\* What nukeCRD does with the result of each call: "next" to go on, or what
\* it returns.
OnFetch(out) ==
    IF out = "ok" THEN "next" ELSE IF out = "notfound" THEN NoErr ELSE ErrRetrieve

\* A delete whose error is logged and passed over.
OnDeleteIgnore(out) == "next"

OnDelete(out) == IF out = "ok" THEN "next" ELSE ErrDelete

OnListNs(out) == IF out \in {"ok", "notfound"} THEN "next" ELSE ErrListNs

\* Not-found from the object list as fatal as any error, as in the first
\* version of removeResourcesWithOpts.
OnListStrict(out) == IF out = "ok" THEN "next" ELSE ErrListObjects

OnList(out) == IF out \in {"ok", "notfound"} THEN "next" ELSE ErrListObjects

\* A failed patch skipped, the loop going on.
OnPatchSkip(out) == "next"

\* A patch of an object that is gone counted as done.
OnPatchTolerant(out) == IF out \in {"ok", "notfound"} THEN "next" ELSE ErrPatch

OnPatch(out) == IF out = "ok" THEN "next" ELSE ErrPatch

\* The condition with its two answers swapped: done while the CRD is there.
PollCondSwapped(out) ==
    IF out = "ok" THEN [done |-> TRUE, err |-> NoErr]
    ELSE IF out = "notfound" THEN [done |-> FALSE, err |-> NoErr]
    ELSE [done |-> FALSE, err |-> out]

\* A condition that answers a failed fetch with "not yet".
PollCondSwallow(out) ==
    IF out = "notfound" THEN [done |-> TRUE, err |-> NoErr]
    ELSE [done |-> FALSE, err |-> NoErr]

\* The condition function handed to wait.PollUntilContextTimeout.
PollCond(out) ==
    IF out = "ok" THEN [done |-> FALSE, err |-> NoErr]
    ELSE IF out = "notfound" THEN [done |-> TRUE, err |-> NoErr]
    ELSE [done |-> FALSE, err |-> out]

\* The poll's error taken for a failure whatever it is.
InterruptedNever(err) == FALSE

\* wait.Interrupted: the error is, or wraps, the context's.
Interrupted(err) == err = "ctxerr"

\* ------------------------------------------------------------ the cluster

\* What a call made now may return: nothing but the context's error once the
\* context is cancelled, else the cluster's answer or one of the faults F.
Outcomes(answer, F) ==
    IF cancel.at # "" THEN {"ctxerr"} ELSE {answer} \cup F

\* client.Get of the CRD by name, as the cluster answers it.
GetCRD(name) ==
    IF crdObj.exists /\ crdObj.name = name THEN "ok" ELSE "notfound"

\* client.List of the kind's objects in namespace ns (all with NoNamespace).
RECURSIVE ListFrom(_, _)
ListFrom(ns, k) ==
    IF k > MaxInst THEN <<>>
    ELSE (IF k \in DOMAIN objs /\ (ns = NoNamespace \/ objs[k].ns = ns)
          THEN <<objs[k]>> ELSE <<>>) \o ListFrom(ns, k + 1)

ListObjects(ns) == ListFrom(ns, 1)

\* ------------------------------------------------------------------ Init

MainVersionLists ==
    { << [name |-> "v1alpha1", served |-> FALSE],
         [name |-> "v1beta1", served |-> TRUE],
         [name |-> "v1", served |-> TRUE] >>,
      << [name |-> "v1alpha1", served |-> FALSE],
         [name |-> "v1", served |-> FALSE] >> }

InitCRDs ==
    {NoCRD} \cup
    [exists : {TRUE}, deleting : {FALSE}, name : {CRDName},
     scope : {NamespaceScoped, ClusterScoped}, group : {"omnicorp.com"},
     versions : MainVersionLists]

InitObjs(c) ==
    IF ~c.exists THEN {<<>>}
    ELSE LET nss == IF c.scope = NamespaceScoped THEN 1..MaxNs ELSE {NoNamespace}
             recs == [name : 1..MaxInst, ns : nss, fin : {<<>>, <<Finalizer>>},
                      data : {0}, deleting : {FALSE}]
         IN UNION {{f \in [1..n -> recs] : \A d \in 1..n : f[d].name = d}
                   : n \in 0..MaxInst}

InitTool ==
    /\ i = 1
    /\ success = FALSE
    /\ exitCode = -1
    /\ result = [t \in 1..Len(args) |-> ""]
    /\ invoked = <<>>
    /\ warned = [t \in 1..Len(args) |-> FALSE]
    /\ crd = NoCRD
    /\ scopes = <<>>
    /\ scIdx = 0
    /\ apiVersion = ""
    /\ items = <<>>
    /\ idx = 0
    /\ ticks = 0
    /\ calls = <<>>
    /\ lastPatch = NoPatch
    /\ listed = <<>>
    /\ cancel = NoCancel

Init ==
    /\ args \in SeqsUpTo(ArgNames, MaxTargets) \ {<<>>}
    /\ pc = "fetch"
    /\ crdObj \in InitCRDs
    /\ objs \in InitObjs(crdObj)
    /\ InitTool

\* ------------------------------------------------------------- the tool

\* A loop that stops at the first target that fails.
ReturnAndStop(r) ==
    /\ result' = [result EXCEPT ![i] = r]
    /\ success' = (success \/ r # NoErr)
    /\ i' = i + 1
    /\ pc' = IF i + 1 > Len(args) \/ r # NoErr THEN "exit" ELSE "fetch"
    /\ crd' = NoCRD
    /\ scopes' = <<>>
    /\ scIdx' = 0
    /\ apiVersion' = ""
    /\ items' = <<>>
    /\ idx' = 0
    /\ ticks' = 0

\* nukeCRD returns r to main's loop, which marks the failure and goes on.
Return(r) ==
    /\ result' = [result EXCEPT ![i] = r]
    /\ success' = (success \/ r # NoErr)
    /\ i' = i + 1
    /\ pc' = IF i + 1 > Len(args) THEN "exit" ELSE "fetch"
    /\ crd' = NoCRD
    /\ scopes' = <<>>
    /\ scIdx' = 0
    /\ apiVersion' = ""
    /\ items' = <<>>
    /\ idx' = 0
    /\ ticks' = 0

\* The range loops of removeResourcesWithOpts and removeResources from item k
\* of its: on to the next patch, the next scope, or the convergence wait.
Advance(sc, sci, its, k) ==
    LET n == NextStuck(its, k) IN
    /\ UNCHANGED <<result, success, i>>
    /\ ticks' = 0
    /\ IF n <= Len(its)
       THEN pc' = "patch" /\ idx' = n /\ scIdx' = sci /\ items' = its
       ELSE /\ idx' = 0
            /\ items' = <<>>
            /\ IF sci < Len(sc)
               THEN pc' = "list" /\ scIdx' = sci + 1
               ELSE pc' = "poll" /\ scIdx' = sci

\* nukeCRD: fetch the CRD.
FetchCRD(F) ==
    /\ pc = "fetch"
    /\ \E out \in Outcomes(GetCRD(ToLower(args[i])), F) :
        /\ calls' = <<Call("get", 0, out)>>
        /\ lastPatch' = NoPatch
        /\ listed' = <<>>
        /\ invoked' = Append(invoked, ToLower(args[i]))
        /\ IF OnFetch(out) = "next"
           THEN /\ pc' = "delete"
                /\ crd' = crdObj
                /\ UNCHANGED <<result, success, i, scopes, scIdx, apiVersion,
                               items, idx, ticks>>
           ELSE Return(OnFetch(out))
    /\ UNCHANGED <<args, cancel, exitCode, warned, crdObj, objs>>

\* nukeCRD: delete the CRD.
DeleteCRD(F) ==
    /\ pc = "delete"
    /\ \E out \in Outcomes(GetCRD(crd.name), F) :
        /\ calls' = Append(calls, Call("delete", 0, out))
        /\ crdObj' = IF out = "ok" THEN [crdObj EXCEPT !.deleting = TRUE]
                     ELSE crdObj
        /\ IF OnDelete(out) = "next"
           THEN /\ pc' = "sweep"
                /\ UNCHANGED <<result, success, i, crd, scopes, scIdx,
                               apiVersion, items, idx, ticks>>
           ELSE Return(OnDelete(out))
    /\ UNCHANGED <<args, cancel, listed, exitCode, warned, invoked, lastPatch,
                   objs>>

\* removeResources up to its first call of removeResourcesWithOpts.
removeResources(F) ==
    /\ pc = "sweep"
    /\ IF crd.scope = NamespaceScoped
       THEN \E out \in Outcomes("ok", F) :
            /\ calls' = Append(calls, Call("nslist", 0, out))
            /\ IF OnListNs(out) = "next"
               THEN LET nsItems == IF out = "ok" THEN Namespaces ELSE <<>>
                        sc == ScopesOf(crd, nsItems)
                    IN /\ scopes' = sc
                       /\ scIdx' = IF sc = <<>> THEN 0 ELSE 1
                       /\ pc' = IF sc = <<>> THEN "poll" ELSE "list"
                       /\ UNCHANGED <<result, success, i, crd, apiVersion,
                                      items, idx, ticks>>
               ELSE Return(OnListNs(out))
       ELSE /\ scopes' = ScopesOf(crd, <<>>)
            /\ scIdx' = 1
            /\ pc' = "list"
            /\ UNCHANGED <<calls, result, success, i, crd, apiVersion, items,
                           idx, ticks>>
    /\ UNCHANGED <<args, cancel, listed, exitCode, warned, invoked, lastPatch,
                   crdObj, objs>>

\* removeResourcesWithOpts up to its first patch: resolve the API version,
\* list the objects of the scope, skip the items without finalizers.
removeResourcesWithOpts(F) ==
    /\ pc = "list"
    /\ LET v == getAPIVersion(crd) IN
       IF v.err # NoErr
       THEN Return(v.err) /\ UNCHANGED <<calls, listed>>
       ELSE \E out \in Outcomes(IF crdObj.exists THEN "ok" ELSE "notfound", F) :
            LET its == IF out = "ok" THEN ListObjects(scopes[scIdx]) ELSE <<>>
            IN /\ calls' = Append(calls, Call("list", scopes[scIdx], out))
               /\ listed' = listed \o its
               /\ IF OnList(out) = "next"
                  THEN /\ apiVersion' = v.v
                       /\ UNCHANGED <<crd, scopes>>
                       /\ Advance(scopes, scIdx, its, 1)
                  ELSE Return(OnList(out))
    /\ UNCHANGED <<args, cancel, exitCode, warned, invoked, lastPatch, crdObj,
                   objs>>

\* removeResourcesWithOpts: patch the finalizers of items[idx] away, then on
\* with the loop.
PatchObject(F) ==
    /\ pc = "patch"
    /\ LET obj == items[idx]
           oldObj == obj
           patch == MergeFrom(oldObj, SetFinalizers(obj, <<>>))
       IN \E out \in Outcomes(IF obj.name \in DOMAIN objs THEN "ok"
                               ELSE "notfound", F) :
          /\ calls' = Append(calls, Call("patch", obj.name, out))
          /\ IF out = "ok"
             THEN /\ objs' = [objs EXCEPT ![obj.name] = ApplyPatch(@, patch)]
                  /\ lastPatch' = [t |-> i, name |-> obj.name, old |-> oldObj,
                                   before |-> objs[obj.name]]
             ELSE UNCHANGED <<objs, lastPatch>>
          /\ IF OnPatch(out) = "next"
             THEN /\ UNCHANGED <<crd, scopes, apiVersion>>
                  /\ Advance(scopes, scIdx, items, idx + 1)
             ELSE Return(OnPatch(out))
    /\ UNCHANGED <<args, cancel, listed, exitCode, warned, invoked, crdObj>>

\* An interrupted wait answered with nil and no warning.
AfterPollSilent(err) ==
    /\ IF err # NoErr /\ ~Interrupted(err) THEN Return(ErrFinal)
       ELSE Return(NoErr)
    /\ UNCHANGED warned

\* An interrupted wait started over instead of ended.
AfterPollRetry(err) ==
    IF Interrupted(err)
    THEN /\ ticks' = 0
         /\ UNCHANGED <<pc, result, success, i, crd, scopes, scIdx, apiVersion,
                        items, idx, warned>>
    ELSE IF err # NoErr
         THEN Return(ErrFinal) /\ UNCHANGED warned
         ELSE Return(NoErr) /\ UNCHANGED warned

\* nukeCRD after wait.PollUntilContextTimeout returned err: the warning for
\* an interrupted wait, the error for any other, nil.
AfterPoll(err) ==
    IF Interrupted(err)
    THEN warned' = [warned EXCEPT ![i] = TRUE] /\ Return(NoErr)
    ELSE IF err # NoErr
         THEN Return(ErrFinal) /\ UNCHANGED warned
         ELSE Return(NoErr) /\ UNCHANGED warned

\* nukeCRD: one call of the poll's condition function.  The first is made
\* whatever the context's state; the later ones only while it is not done.
PollCondition(F) ==
    /\ pc = "poll"
    /\ ticks < MaxPollFetches
    /\ cancel.at = "" \/ ticks = 0
    /\ \E out \in Outcomes(GetCRD(ToLower(args[i])), F) :
        /\ calls' = Append(calls, Call("pollget", 0, out))
        /\ LET c == PollCond(out) IN
           IF c.err # NoErr \/ c.done THEN AfterPoll(c.err)
           ELSE /\ ticks' = ticks + 1
                /\ UNCHANGED <<pc, result, success, i, crd, scopes, scIdx,
                               apiVersion, items, idx, warned>>
    /\ UNCHANGED <<args, cancel, listed, exitCode, invoked, lastPatch, crdObj,
                   objs>>

\* nukeCRD: between two fetches the poll finds its context done (the timeout
\* has passed, or the signal came) and returns the context's error.
PollTimeout ==
    /\ pc = "poll"
    /\ ticks >= 1
    /\ AfterPoll("ctxerr")
    /\ UNCHANGED <<args, cancel, listed, exitCode, invoked, calls, lastPatch,
                   crdObj, objs>>

\* main: the end of the loop over the targets.
Exit ==
    /\ pc = "exit"
    /\ exitCode' = IF success THEN 0 ELSE 1
    /\ pc' = "done"
    /\ UNCHANGED <<args, i, success, result, invoked, warned, crd, scopes,
                   scIdx, apiVersion, items, idx, ticks, calls, lastPatch,
                   listed, cancel, crdObj, objs>>

\* The interrupt signal arrives: the context of every call is cancelled.
Cancel ==
    /\ cancel = NoCancel
    /\ pc \notin {"exit", "done"}
    /\ cancel' = [at |-> pc, t |-> i]
    /\ UNCHANGED <<args, i, pc, success, exitCode, result, invoked, warned,
                   crd, scopes, scIdx, apiVersion, items, idx, ticks, calls,
                   lastPatch, listed, crdObj, objs>>

\* ------------------------------------------------------- the environment

\* The deletion of the CRD reaches an instance: it is marked for deletion.
GCMark(id) ==
    /\ crdObj.exists /\ crdObj.deleting
    /\ id \in DOMAIN objs
    /\ ~objs[id].deleting
    /\ objs' = [objs EXCEPT ![id].deleting = TRUE]
    /\ UNCHANGED <<toolVars, crdObj>>

\* A deletion-marked instance without finalizers is removed.
GCRemove(id) ==
    /\ id \in DOMAIN objs
    /\ objs[id].deleting
    /\ objs[id].fin = <<>>
    /\ objs' = [d \in DOMAIN objs \ {id} |-> objs[d]]
    /\ UNCHANGED <<toolVars, crdObj>>

\* The deletion-marked CRD is removed once no instance is left.
GCRemoveCRD ==
    /\ crdObj.exists /\ crdObj.deleting
    /\ DOMAIN objs = {}
    /\ crdObj' = [crdObj EXCEPT !.exists = FALSE]
    /\ UNCHANGED <<toolVars, objs>>

\* Another writer changes a field of an instance other than its finalizers,
\* while the sweep is between its list call and a patch call.
OtherWrite(id) ==
    /\ pc = "patch"
    /\ id \in DOMAIN objs
    /\ objs[id].data < MaxData
    /\ objs' = [objs EXCEPT ![id].data = @ + 1]
    /\ UNCHANGED <<toolVars, crdObj>>

\* Another actor (a controller that is late, a second run of the tool)
\* clears the finalizers of a deletion-marked instance.
OtherFinalize(id) ==
    /\ id \in DOMAIN objs
    /\ objs[id].deleting
    /\ objs[id].fin # <<>>
    /\ objs' = [objs EXCEPT ![id].fin = <<>>]
    /\ UNCHANGED <<toolVars, crdObj>>

Next ==
    \/ FetchCRD(Faults)
    \/ DeleteCRD(Faults)
    \/ removeResources(ListFaults)
    \/ removeResourcesWithOpts(ListFaults)
    \/ PatchObject(Faults)
    \/ PollCondition(PollFaults)
    \/ PollTimeout
    \/ Exit
    \/ Cancel
    \/ \E id \in 1..MaxInst : GCMark(id)
    \/ \E id \in 1..MaxInst : GCRemove(id)
    \/ GCRemoveCRD
    \/ \E id \in 1..MaxInst : OtherWrite(id)
    \/ \E id \in 1..MaxInst : OtherFinalize(id)

Spec == Init /\ [][Next]_vars

\* ---------------------------------------- the tool and the collector alone

\* No API call fails and nobody else writes: the tool runs against the
\* garbage collector only.  The tool's process runs on until it exits, and
\* the collector gets to every object it can act on.
InitLive == Init /\ crdObj.exists

NextLive ==
    \/ FetchCRD(NoFaults)
    \/ DeleteCRD(NoFaults)
    \/ removeResources(NoFaults)
    \/ removeResourcesWithOpts(NoFaults)
    \/ PatchObject(NoFaults)
    \/ PollCondition(NoFaults)
    \/ PollTimeout
    \/ Exit
    \/ \E id \in 1..MaxInst : GCMark(id)
    \/ \E id \in 1..MaxInst : GCRemove(id)
    \/ GCRemoveCRD

SpecLive ==
    /\ InitLive
    /\ [][NextLive]_vars
    /\ WF_vars(FetchCRD(NoFaults))
    /\ WF_vars(DeleteCRD(NoFaults))
    /\ WF_vars(removeResources(NoFaults))
    /\ WF_vars(removeResourcesWithOpts(NoFaults))
    /\ WF_vars(PatchObject(NoFaults))
    /\ WF_vars(PollCondition(NoFaults))
    /\ WF_vars(PollTimeout)
    /\ WF_vars(Exit)
    /\ \A id \in 1..MaxInst : WF_vars(GCMark(id))
    /\ \A id \in 1..MaxInst : WF_vars(GCRemove(id))
    /\ WF_vars(GCRemoveCRD)

\* ------------------------------------------------- version resolution alone

\* getAPIVersion applied to every CRD with up to MaxVersions versions.
InitVersions ==
    /\ args = <<CRDName>>
    /\ pc = "resolve"
    /\ crdObj \in [exists : {TRUE}, deleting : {FALSE}, name : {CRDName},
                   scope : {ClusterScoped}, group : Groups,
                   versions : SeqsUpTo(VersionRecs, MaxVersions)]
    /\ objs = <<>>
    /\ InitTool

ResolveVersion ==
    /\ pc = "resolve"
    /\ pc' = "resolved"
    /\ apiVersion' = getAPIVersion(crdObj).v
    /\ result' = [result EXCEPT ![1] = getAPIVersion(crdObj).err]
    /\ UNCHANGED <<args, i, success, exitCode, invoked, warned, crd, scopes,
                   scIdx, items, idx, ticks, calls, lastPatch, listed, cancel,
                   crdObj, objs>>

SpecVersions == InitVersions /\ [][ResolveVersion]_vars

\* ============================================================ properties

\* The CRD and every instance of its kind are gone from the cluster.
AllGone == ~crdObj.exists /\ DOMAIN objs = {}

\* Some version of c is marked served.
HasServed(c) == \E k \in 1..Len(c.versions) : c.versions[k].served

\* The calls of the running (or last) nukeCRD with operation op.
CallsOf(op) == SelectSeq(calls, LAMBDA c : c.op = op)

\* C1 as stated: once nukeCRD has fetched an existing CRD, the tool and the
\* garbage collector between them eventually remove the CRD and all its
\* instances.
C1_AsStated == (pc = "delete") ~> AllGone

\* C1, amended: once nukeCRD has fetched an existing CRD that has a served
\* version, the tool and the garbage collector between them eventually
\* remove the CRD and all instances of its kind, however their steps
\* interleave.
C1_EventuallyGone == (pc = "delete" /\ HasServed(crd)) ~> AllGone

\* A stuck instance was patched by the tool, the tool has exited, and the
\* cluster holds neither the CRD nor an instance.
C1_Witness == pc = "done" /\ lastPatch # NoPatch /\ AllGone

\* The target of the running (or last) nukeCRD, 0 before the first.
Cur == IF calls = <<>> THEN 0 ELSE calls[1].t

\* The running (or last) nukeCRD fetched the CRD / had it deleted.
Fetched == calls # <<>> /\ calls[1].res = "ok"
Deleted == Len(calls) >= 2 /\ calls[2].op = "delete" /\ calls[2].res = "ok"

\* C2: when the initial fetch of nukeCRD returns not-found, nukeCRD returns
\* nil, warns of nothing, and the fetch is the only call it issued: no
\* delete, no namespace list, no object list, no patch, no poll.
C2_NotFoundIsNoOp ==
    (calls # <<>> /\ calls[1].res = "notfound") =>
        /\ Len(calls) = 1
        /\ result[Cur] = NoErr
        /\ ~warned[Cur]

\* The cluster holds a CRD with a stuck instance, and nukeCRD was called
\* with another name, which it did not find.
C2_Witness ==
    /\ calls # <<>> /\ calls[1].res = "notfound"
    /\ result[Cur] = NoErr
    /\ crdObj.exists /\ \E id \in DOMAIN objs : objs[id].fin # <<>>

\* C3: when the process exits, its exit status is non-zero if and only if
\* nukeCRD returned an error for at least one target.
C3_ExitNonZeroIffFailed ==
    pc = "done" =>
        ((exitCode # 0) <=> (\E t \in 1..Len(args) : result[t] # NoErr))

\* C4: nukeCRD is called once per target, with the lowercased names in the
\* order given: the calls made so far are those of the targets before the
\* loop's position, whatever those returned, and at the exit every target
\* had its call.
C4_EveryTargetAttempted ==
    /\ Len(invoked) <= Len(args)
    /\ \A k \in 1..Len(invoked) : invoked[k] = ToLower(args[k])
    /\ \A t \in 1..Len(args) : result[t] # "" => t <= Len(invoked)
    /\ Len(invoked) \in {i - 1, i}
    /\ pc \in {"exit", "done"} => Len(invoked) = Len(args)

\* The first target failed; the second was nuked all the same, a stuck
\* instance of it patched, and returned nil.
C4_Witness ==
    /\ pc = "done"
    /\ Len(args) = 2
    /\ result[1] # NoErr
    /\ result[2] = NoErr
    /\ lastPatch.t = 2

\* Target t is the same name as the target before it.
Rerun(t) == t >= 2 /\ t <= Len(args) /\ ToLower(args[t]) = ToLower(args[t - 1])

\* The running (or last) nukeCRD issued a delete or a patch.
Mutated == CallsOf("delete") # <<>> \/ CallsOf("patch") # <<>>

\* No call of the running (or last) nukeCRD failed with an API error.
NoAPIError == \A k \in 1..Len(calls) : calls[k].res \in {"ok", "notfound"}

\* The cluster holds neither a CRD of this name nor an instance of its kind.
Absent(name) ==
    /\ GetCRD(name) = "notfound"
    /\ name = CRDName => DOMAIN objs = {}

\* C5 as stated: a second nukeCRD on the name of a first that returned nil
\* returns nil as well and issues neither a delete nor a patch (read with
\* no API error in the second run).
C5_AsStated ==
    (Rerun(Cur) /\ result[Cur - 1] = NoErr /\ NoAPIError) =>
        /\ ~Mutated
        /\ result[Cur] \in {"", NoErr}

\* C5, amended: when the first nukeCRD returned nil without the "CRD still
\* exists" warning (a fetch of it returned not-found), a second nukeCRD on
\* the same name issues its fetch and nothing else, finds the cluster
\* without the CRD and its instances and leaves it so, and returns nil
\* unless the fetch fails with an error other than not-found.
C5_RerunAfterConvergence ==
    (Rerun(Cur) /\ result[Cur - 1] = NoErr /\ ~warned[Cur - 1]) =>
        /\ Len(calls) = 1
        /\ Absent(ToLower(args[Cur]))
        /\ result[Cur] = IF NoAPIError THEN NoErr ELSE ErrRetrieve

\* The first run patched nothing less than the CRD away: it existed at the
\* start, the first run returned nil unwarned, the second found nothing.
C5_Witness ==
    /\ Rerun(Cur) /\ result[Cur - 1] = NoErr /\ ~warned[Cur - 1]
    /\ crdObj.deleting
    /\ result[Cur] = NoErr

\* The step is a patch call that the cluster accepted.
PatchApplied ==
    /\ pc = "patch"
    /\ Len(calls') = Len(calls) + 1
    /\ calls'[Len(calls')].op = "patch"
    /\ calls'[Len(calls')].res = "ok"

\* C6: a patch of the sweep that the cluster accepts changes the patched
\* instance's finalizers to the empty list and nothing else: every other
\* field of it, and every other instance, is as it was in the cluster
\* right before the patch.
C6_PatchTouchesOnlyFinalizers ==
    [][PatchApplied =>
        LET n == calls'[Len(calls')].arg IN
        objs' = [objs EXCEPT ![n] = [objs[n] EXCEPT !.fin = <<>>]]]_vars

\* A field of the instance was changed between the list and the patch, and
\* after the patch the instance has the changed value and no finalizers.
C6_Witness ==
    /\ lastPatch # NoPatch
    /\ lastPatch.old.data # lastPatch.before.data
    /\ lastPatch.name \in DOMAIN objs
    /\ objs[lastPatch.name].data = lastPatch.before.data
    /\ objs[lastPatch.name].fin = <<>>

\* The namespaces (NoNamespace: none) of the object list calls, in order.
ListArgs == [k \in 1..Len(CallsOf("list")) |-> CallsOf("list")[k].arg]

\* The namespaces the namespace list call returned.
NsReturned ==
    IF CallsOf("nslist") # <<>> /\ CallsOf("nslist")[1].res = "ok"
    THEN Namespaces ELSE <<>>

IsPrefix(s, t) == Len(s) <= Len(t) /\ \A k \in 1..Len(s) : s[k] = t[k]

\* The sweep of the running (or last) nukeCRD returned without error.
SweepDone == pc = "poll" \/ CallsOf("pollget") # <<>>

\* C7: the object list calls of a sweep are, for a NamespaceScoped CRD, one
\* per namespace the namespace list returned, filtered by that namespace,
\* in order, and no unfiltered one; for a ClusterScoped CRD, one unfiltered
\* list and no namespace list.  A sweep that fails has issued a prefix.
C7_ListCallsPerScope ==
    Fetched =>
        IF crdObj.scope = NamespaceScoped
        THEN /\ Len(CallsOf("nslist")) <= 1
             /\ IsPrefix(ListArgs, NsReturned)
             /\ SweepDone => (Len(CallsOf("nslist")) = 1 /\ ListArgs = NsReturned)
        ELSE /\ CallsOf("nslist") = <<>>
             /\ IsPrefix(ListArgs, <<NoNamespace>>)
             /\ SweepDone => ListArgs = <<NoNamespace>>

\* The sweep of a NamespaceScoped CRD is through, with one list call for
\* each of the cluster's namespaces.
C7_Witness ==
    /\ Fetched /\ crdObj.scope = NamespaceScoped
    /\ pc = "poll"
    /\ ListArgs = Namespaces
    /\ Len(ListArgs) >= 2

\* C8: for a CRD without a served version the sweep issues no namespace
\* list, no object list and no patch, and nukeCRD returns the
\* no-served-version error.
C8_NoServedFailsBeforeAnyCall ==
    (Fetched /\ Deleted /\ ~HasServed(crdObj)) =>
        /\ CallsOf("nslist") = <<>>
        /\ CallsOf("list") = <<>>
        /\ CallsOf("patch") = <<>>
        /\ CallsOf("pollget") = <<>>
        /\ result[Cur] \in {"", ErrNoServed}

\* The lowest index of a served version.
FirstServed(vs) ==
    CHOOSE k \in 1..Len(vs) : vs[k].served /\ \A j \in 1..(k - 1) : ~vs[j].served

\* C9: getAPIVersion returns group/name for the served version of the
\* lowest index, and an error exactly when no version is served.
C9_FirstServedVersion ==
    pc = "resolved" =>
        IF HasServed(crdObj)
        THEN /\ result[1] = NoErr
             /\ apiVersion = crdObj.group \o "/"
                                \o crdObj.versions[FirstServed(crdObj.versions)].name
        ELSE result[1] # NoErr

\* v1alpha1 unserved, v1beta1 and v1 served: resolved to group/v1beta1.
C9_Witness ==
    /\ pc = "resolved"
    /\ crdObj.versions = << [name |-> "v1alpha1", served |-> FALSE],
                            [name |-> "v1beta1", served |-> TRUE],
                            [name |-> "v1", served |-> TRUE] >>
    /\ crdObj.group = "omnicorp.com"
    /\ apiVersion = "omnicorp.com/v1beta1"

\* C10: a patch that fails is the last call of its nukeCRD, which returns
\* the patch error to main: no further patch, list or poll follows.
C10_PatchFailureAborts ==
    \A k \in 1..Len(calls) :
        (calls[k].op = "patch" /\ calls[k].res # "ok") =>
            /\ k = Len(calls)
            /\ result[Cur] = ErrPatch
            /\ i > Cur

\* A patch failed in the first namespace of a NamespaceScoped CRD; the next
\* namespace was not listed, and a stuck instance in it kept its finalizers.
C10_Witness ==
    /\ calls # <<>>
    /\ calls[Len(calls)].op = "patch" /\ calls[Len(calls)].res # "ok"
    /\ crdObj.scope = NamespaceScoped
    /\ ListArgs = <<1>>
    /\ \E id \in DOMAIN objs : objs[id].ns = 2 /\ objs[id].fin # <<>>

\* The position in calls of the running (or last) nukeCRD's list calls.
ListCalls == {k \in 1..Len(calls) : calls[k].op \in {"nslist", "list"}}

\* The running (or last) nukeCRD has returned to main.
Returned == Cur # 0 /\ i > Cur

\* C11: a namespace list or object list that returns not-found does not end
\* nukeCRD: the next call is the next scope's list or the first fetch of the
\* wait, and until then nukeCRD stands before one of them.  A list that
\* fails with any other error is the last call, and nukeCRD returns the
\* list error of its kind.
C11_ListNotFoundIsEmpty ==
    \A k \in ListCalls :
        /\ calls[k].res = "notfound" =>
              IF k < Len(calls)
              THEN calls[k + 1].op \in {"list", "pollget"}
              ELSE ~Returned /\ pc \in {"list", "poll"}
        /\ calls[k].res \notin {"ok", "notfound"} =>
              /\ k = Len(calls)
              /\ Returned
              /\ result[Cur] = IF calls[k].op = "nslist" THEN ErrListNs
                               ELSE ErrListObjects

\* The list of the first namespace returned not-found; the second namespace
\* was listed all the same, and the wait was entered.
C11_Witness ==
    /\ \E k \in ListCalls :
          /\ calls[k].op = "list" /\ calls[k].arg = 1
          /\ calls[k].res = "notfound"
          /\ k < Len(calls)
          /\ calls[k + 1].op = "list" /\ calls[k + 1].arg = 2
    /\ CallsOf("pollget") # <<>>

\* The fetches of the running (or last) nukeCRD's convergence wait.
PollGets == CallsOf("pollget")

\* The marks main's loop has made are those of the targets whose nukeCRD
\* returned an error.
MarkedFailed == \E t \in 1..(i - 1) : result[t] # NoErr

\* C12: when nukeCRD has returned from a wait in which every fetch found the
\* CRD, it has logged the warning and returned nil, and main's mark of a
\* failure stands only if the nukeCRD of some target returned an error.
C12_TimeoutWarnsAndReturnsNil ==
    (Returned /\ PollGets # <<>>
        /\ \A k \in 1..Len(PollGets) : PollGets[k].res = "ok") =>
        /\ result[Cur] = NoErr
        /\ warned[Cur]
        /\ success = MarkedFailed

\* The timeout passed, uninterrupted by a signal, after the last fetch the
\* poll had time for; the only target was warned of and is not marked.
C12_Witness ==
    /\ Returned /\ cancel = NoCancel
    /\ Len(PollGets) = MaxPollFetches
    /\ \A k \in 1..Len(PollGets) : PollGets[k].res = "ok"
    /\ Len(args) = 1
    /\ warned[1] /\ result[1] = NoErr /\ ~success

\* The positions in calls of the wait's fetches that failed with an error
\* other than not-found.
FailedPollGets ==
    {k \in 1..Len(calls) : /\ calls[k].op = "pollget"
                           /\ calls[k].res \notin {"ok", "notfound"}}

\* C13 as stated: a fetch of the wait that fails with any error other than
\* not-found is the last call of nukeCRD, which returns the error of the
\* final existence check.
C13_AsStated ==
    \A k \in FailedPollGets :
        k = Len(calls) /\ Returned /\ result[Cur] = ErrFinal

\* C13: a fetch of the wait that fails with an error other than not-found
\* is the last call of nukeCRD.  nukeCRD returns the error of the final
\* existence check unless the fetch failed with the context's error
\* (deadline exceeded or canceled): then it logs the warning and returns
\* nil, as for a timeout.
C13_PollErrorEndsWait ==
    \A k \in FailedPollGets :
        /\ k = Len(calls)
        /\ Returned
        /\ IF Interrupted(calls[k].res)
           THEN result[Cur] = NoErr /\ warned[Cur]
           ELSE result[Cur] = ErrFinal /\ ~warned[Cur]

\* The second fetch of a wait failed with an API error: no third fetch, and
\* nukeCRD returned the error of the final existence check.
C13_Witness ==
    /\ Len(PollGets) = 2
    /\ PollGets[1].res = "ok" /\ PollGets[2].res = "err"
    /\ Returned /\ result[Cur] = ErrFinal

\* The terminal states of the wait of the running (or last) nukeCRD.
Converged ==
    /\ Returned /\ result[Cur] = NoErr /\ ~warned[Cur]
    /\ calls[Len(calls)].res = "notfound"
WarnedStuck ==
    /\ Returned /\ result[Cur] = NoErr /\ warned[Cur]
    /\ \/ calls[Len(calls)].res = "ok"
       \/ Interrupted(calls[Len(calls)].res)
Failed ==
    /\ Returned /\ result[Cur] = ErrFinal /\ ~warned[Cur]
    /\ calls[Len(calls)].res \notin {"ok", "notfound"}
    /\ ~Interrupted(calls[Len(calls)].res)
WaitOutcomes ==
    {o \in {"Converged", "WarnedStuck", "Failed"} :
        \/ o = "Converged" /\ Converged
        \/ o = "WarnedStuck" /\ WarnedStuck
        \/ o = "Failed" /\ Failed}

\* C14: a wait issues no more fetches than the timeout has room for; while
\* nukeCRD is in the wait it has not returned and a fetch or the timeout can
\* happen; once nukeCRD has returned from a wait, the wait is in exactly one
\* of Converged, WarnedStuck and Failed, and a fetch of the wait is the last
\* call of that nukeCRD.
C14_WaitTerminates ==
    /\ Len(PollGets) <= MaxPollFetches
    /\ \A k \in 1..Len(calls) : calls[k].t = Cur
    /\ pc = "poll" =>
          /\ ~Returned /\ ticks <= MaxPollFetches
          /\ ENABLED (PollCondition(PollFaults) \/ PollTimeout)
    /\ (Returned /\ PollGets # <<>>) =>
          /\ calls[Len(calls)].op = "pollget"
          /\ Cardinality(WaitOutcomes) = 1

\* A wait that Converged at its second fetch.
C14_Witness ==
    /\ Converged
    /\ Len(PollGets) = 2
    /\ PollGets[1].res = "ok" /\ PollGets[2].res = "notfound"

\* The positions in calls of the initial fetch and the delete.
FetchDeleteCalls == {k \in 1..Len(calls) : calls[k].op \in {"get", "delete"}}

\* C15: nukeCRD returns the error of the initial fetch or of the delete
\* exactly when the fetch or the delete returned an error other than
\* not-found; a not-found from either does not fail the target.
C15_FetchDeleteFailure ==
    (Returned /\ result[Cur] \in {ErrRetrieve, ErrDelete}) <=>
        (Returned /\ \E k \in FetchDeleteCalls :
                         calls[k].res \notin {"ok", "notfound"})

\* The step of nukeCRD a call belongs to: 1 fetch, 2 delete, 3 sweep,
\* 4 convergence wait.
StepOf(op) ==
    IF op = "get" THEN 1
    ELSE IF op = "delete" THEN 2
    ELSE IF op = "pollget" THEN 4
    ELSE 3

\* The call ends its step with a result that nukeCRD does not go on from.
Stops(c) ==
    IF c.op \in {"get", "delete", "patch"} THEN c.res # "ok"
    ELSE IF c.op = "pollget" THEN c.res # "ok"
    ELSE c.res \notin {"ok", "notfound"}

\* C16: the calls of one nukeCRD are one fetch, then at most one delete,
\* then the lists and patches of the sweep, then the fetches of the wait, in
\* this order.  A list or patch is issued only after the delete returned
\* without error, a fetch of the wait only after every call of the sweep
\* was gone on from and the sweep returned nil, and a call that nukeCRD does
\* not go on from is its last call.
C16_StepsInOrder ==
    /\ calls # <<>> => calls[1].op = "get"
    /\ Len(CallsOf("get")) <= 1 /\ Len(CallsOf("delete")) <= 1
    /\ \A k \in 1..Len(calls) :
          /\ k > 1 => StepOf(calls[k - 1].op) <= StepOf(calls[k].op)
          /\ StepOf(calls[k].op) >= 2 => Fetched
          /\ StepOf(calls[k].op) >= 3 => Deleted
          /\ Stops(calls[k]) => k = Len(calls) /\ Returned
    /\ pc \in {"sweep", "list", "patch", "poll"} => Deleted /\ ~Returned
    /\ (Returned /\ result[Cur] \notin {NoErr, ErrFinal}) => PollGets = <<>>

\* A nukeCRD that went through the four steps: fetch, delete, a sweep with
\* a namespace list, an object list and a patch, and a fetch of the wait.
C16_Witness ==
    /\ Fetched /\ Deleted
    /\ CallsOf("nslist") # <<>>
    /\ CallsOf("patch") # <<>>
    /\ PollGets # <<>>

\* How many patches the running (or last) nukeCRD issued for instance id,
\* and the entries of its list results for that instance.
PatchesOf(id) == Len(SelectSeq(calls, LAMBDA c : c.op = "patch" /\ c.arg = id))
ListedAs(id) == SelectSeq(listed, LAMBDA o : o.name = id)

\* C17: once the sweep has returned nil, every instance that a list call
\* returned with a non-empty finalizer list was patched exactly once, and
\* no patch was issued for an instance listed with no finalizers or not
\* listed.
C17_PatchedIffListedStuck ==
    SweepDone =>
        \A id \in 1..MaxInst :
            PatchesOf(id) =
                IF \E k \in 1..Len(ListedAs(id)) : ListedAs(id)[k].fin # <<>>
                THEN 1 ELSE 0

\* The sweep returned nil after listing one instance with a finalizer and
\* one without: one patch for the former, none for the latter.
C17_Witness ==
    /\ SweepDone
    /\ \E a, b \in 1..MaxInst :
          /\ ListedAs(a) # <<>> /\ ListedAs(a)[1].fin # <<>>
          /\ ListedAs(b) # <<>> /\ ListedAs(b)[1].fin = <<>>
          /\ PatchesOf(a) = 1 /\ PatchesOf(b) = 0

\* The positions in calls of the calls that returned not-found.
NotFoundCalls == {k \in 1..Len(calls) : calls[k].res = "notfound"}

\* C18: a call that returned not-found is the reason nukeCRD returned an
\* error only if it is the delete or a patch.  A not-found initial fetch,
\* list or fetch of the wait is followed by another call or by a return of
\* nil.  A not-found patch is for an instance that is gone from the cluster,
\* is the last call, and nukeCRD has returned the patch error.
C18_NotFoundToleratedOnlyOnReads ==
    \A k \in NotFoundCalls :
        IF calls[k].op \in {"get", "nslist", "list", "pollget"}
        THEN (k = Len(calls) /\ Returned) => result[Cur] = NoErr
        ELSE /\ k = Len(calls)
             /\ Returned
             /\ result[Cur] = IF calls[k].op = "patch" THEN ErrPatch
                              ELSE ErrDelete
             /\ calls[k].op = "patch" => calls[k].arg \notin DOMAIN objs

\* Two stuck instances were listed; the first was gone when its patch was
\* sent, nukeCRD returned the patch error and the second was not patched.
C18_Witness ==
    /\ Returned /\ result[Cur] = ErrPatch
    /\ calls[Len(calls)].op = "patch"
    /\ calls[Len(calls)].res = "notfound"
    /\ calls[Len(calls)].arg \notin DOMAIN objs
    /\ \E k \in 1..Len(listed) :
          listed[k].fin # <<>> /\ PatchesOf(listed[k].name) = 0

\* The signal came while the nukeCRD of target t was in its convergence
\* wait.
CancelledInWait(t) == cancel.at = "poll" /\ cancel.t = t

\* C19: when the signal came while the nukeCRD of a target was in its
\* convergence wait and that nukeCRD has returned, it has logged the
\* warning and returned nil, and main has marked no failure for it; while
\* it has not returned, it issues no fetch after a first one.
C19_CancelInWaitIsTimeout ==
    \A t \in 1..Len(args) :
        CancelledInWait(t) =>
            /\ i > t =>
                  /\ result[t] = NoErr
                  /\ warned[t]
                  /\ success = MarkedFailed
            /\ (i = t /\ ticks >= 1) => ~ENABLED PollCondition(PollFaults)

\* The signal came between two fetches of a wait: the fetch before it found
\* the CRD, none followed, and nukeCRD warned and returned nil.
C19_Witness ==
    /\ Returned /\ CancelledInWait(Cur)
    /\ PollGets # <<>>
    /\ PollGets[Len(PollGets)].res = "ok"
    /\ Len(PollGets) < MaxPollFetches
    /\ result[Cur] = NoErr /\ warned[Cur]
====
